---- MODULE Spec2Model ----
(***************************************************************************)
(* Frame-by-frame animation editor: the App component (frame list, cursor, *)
(* playback timer, melt and AI-edit requests) and the Canvas component     *)
(* (per-layer undo history, strokes, fills, composite recompute).          *)
(*                                                                         *)
(* Images are 1x1 bitmaps: a layer is Blank (transparent) or one opaque    *)
(* colour; a composite is always opaque.  Indices are 0-based as in the    *)
(* source; TLA+ sequences are 1-based, hence the +1 at every access.       *)
(* floodFill alone is also modelled on a FillWidth x FillHeight grid of    *)
(* pixels, one step per iteration of its stack loop.                       *)
(***************************************************************************)
EXTENDS Integers, Sequences, FiniteSets, TLC

\* ------------------------------------------------------------------ bounds
MaxInputs   == 3   \* user input events explored by the complete editor model
MaxCanvasInputs == 5  \* user input events explored by the drawing-session model
MaxFrameInputs  == 6  \* user input events explored by the timeline model
MaxFrames   == 3   \* add / duplicate / delete are explored on lists up to this length
MaxPushes   == 25  \* pushes since the last reset in the history model
MaxBranches == 1   \* pushes that discard a redo suffix in the history model
MaxStrokes  == 2   \* strokes of the undo/redo round trip
MaxMeltInputs == 4 \* user inputs of the melt session
MaxGestureInputs == 5 \* pointer and tool events of the gesture session
FillWidth == 3  \* columns of the flood-fill grid
FillHeight == 3  \* rows of the flood-fill grid: a column can hold two runs
MaxRenderFrames == 2  \* numFrames of the melt render on the pixel grid

\* ------------------------------------------------------- program constants
HistoryCap     == 20
MeltFrameCount == 20
DefaultFps     == 8
DefaultLayer   == 1
PaperWhite     == 0   \* a pixel of the melt frame's opaque-white fill
MeltGridWidth  == 5   \* the narrowest image with a column in the viscosity range
MeltGridHeight == 3   \* rows of the melt render grid

\* ------------------------------------------------------------------ images
Blank == 0                      \* createBlankLayer: fully transparent
White == 1                      \* '#FFFFFF', opaque
Black == 2                      \* '#000000', the default drawing colour, opaque
Opaque == {White, Black}
Img    == {Blank} \cup Opaque
Sizes  == {1, 2}                \* two distinct container sizes
FpsValues == {DefaultFps, 10}
Tools  == {"DRAW", "FILL", "PICKER"}

VARIABLES
  frames,            \* App: Frame[]; each [id, dataUrl, layers]
  currentFrameIndex, \* App
  activeLayerIndex,  \* App
  isPlaying,         \* App
  fps,               \* App
  cinemaMode,        \* App
  canvasSize,        \* App
  isProcessing,      \* App
  historyState,      \* App: [canUndo, canRedo] as last reported by the Canvas
  tool,              \* App: drawingSettings.tool (brush family collapsed to DRAW)
  intervals,         \* armed setInterval timers, each [len, fps] (closure values)
  playIntervalRef,   \* App: index into intervals of the timer the ref holds, 0 if none
  playTimeouts,      \* pending setTimeout(() => setIsPlaying(true)) callbacks
  meltTasks,         \* melt runs in flight, each [cfi, src]
  lastMelt,          \* outcome of the last melt run that completed
  aiTasks,           \* AI edits in flight, each [cfi, ali, src]
  nextId,            \* next fresh frame id (uuidv4)
  crashed,           \* a render or a state updater threw
  canvasMounted,     \* the Canvas component is rendered
  history,           \* Canvas: historyRef
  historyIndex,      \* Canvas: historyIndexRef
  ignoreFrameUpdate, \* Canvas: ignoreFrameUpdate ref
  canvasBitmap,      \* Canvas: the <canvas> element's pixels
  isDrawing,         \* Canvas: isDrawing state
  pending,           \* composite recomputes in flight, each [data, layers, ali, cfi]
  inputs,            \* user input events so far
  budget,            \* user input events the specification explores
  pushCount,         \* scenario: pushes (completed strokes) since the last reset
  branches,          \* scenario: pushes that discarded a redo suffix
  undoCount,         \* scenario: undo calls of the round trip
  redoCount,         \* scenario: redo calls of the round trip
  pointerDown,       \* scenario: the pointer is pressed on the canvas
  fill,              \* floodFill on a pixel grid: [phase, data, orig, stack, ...]
  compositeRun,      \* one updateLayerAndComposite: [phase, srcs, loaded, ...]
  meltRun            \* generateMeltAnimation on a pixel grid: [phase, f, x, ...]

appVars    == <<frames, currentFrameIndex, activeLayerIndex, isPlaying, cinemaMode, canvasSize>>
canvasVars == <<canvasMounted, history, historyIndex, ignoreFrameUpdate, canvasBitmap,
                isDrawing, historyState, crashed>>
timerVars  == <<intervals, playIntervalRef>>
taskVars   == <<playTimeouts, meltTasks, lastMelt, aiTasks, isProcessing>>
scriptVars == <<budget, pushCount, branches, undoCount, redoCount, pointerDown, fill,
                 compositeRun, meltRun>>
vars == <<frames, currentFrameIndex, activeLayerIndex, isPlaying, fps, cinemaMode, canvasSize,
          isProcessing, historyState, tool, intervals, playIntervalRef, playTimeouts,
          meltTasks, lastMelt, aiTasks, nextId, crashed, canvasMounted, history, historyIndex,
          ignoreFrameUpdate, canvasBitmap, isDrawing, pending, inputs, budget, pushCount,
          branches, undoCount, redoCount, pointerDown, fill,
                 compositeRun, meltRun>>

\* ----------------------------------------------------------------- helpers
Min(a, b) == IF a < b THEN a ELSE b

\* createLayeredFrame: white composite, three transparent layers
createLayeredFrame(id) ==
  [id |-> id, dataUrl |-> White, layers |-> <<Blank, Blank, Blank>>]

\* updateLayerAndComposite's drawing: white fill, then layer 0, 1, 2 source-over
DrawOver(dst, src) == IF src = Blank THEN dst ELSE src

Flatten(ls) == DrawOver(DrawOver(DrawOver(White, ls[1]), ls[2]), ls[3])

\* a splice that ignores its start and appends
SpliceAtEnd(s, start, items) == s \o items

\* Array.prototype.splice(start, 0, ...items): start is clamped to the length
Splice(s, start, items) ==
  LET at == Min(start, Len(s))
  IN SubSeq(s, 1, at) \o items \o SubSeq(s, at + 1, Len(s))

\* Array.prototype.filter((_, i) => i !== index)
RemoveAt(s, index) ==
  SubSeq(s, 1, index) \o SubSeq(s, index + 2, Len(s))

\* ----------------------------------------------------------------- history
\* updateHistoryState: the flags handed to onHistoryChange
HistoryFlags(h, i) == [canUndo |-> i > 0, canRedo |-> i < Len(h) - 1]

\* addToHistory that advances the cursor even when the oldest entry is evicted
AddToHistoryAdvancing(h, i, d) ==
  LET cut    == IF i < Len(h) - 1 THEN SubSeq(h, 1, i + 1) ELSE h
      pushed == Append(cut, d)
  IN IF Len(pushed) > HistoryCap
       THEN [h |-> Tail(pushed), i |-> i + 1]
       ELSE [h |-> pushed, i |-> i + 1]

\* addToHistory that keeps the redo suffix
AddToHistoryKeeping(h, i, d) ==
  LET pushed == Append(h, d)
  IN IF Len(pushed) > HistoryCap
       THEN [h |-> Tail(pushed), i |-> i]
       ELSE [h |-> pushed, i |-> i + 1]

\* addToHistory
AddToHistory(h, i, d) ==
  LET cut    == IF i < Len(h) - 1 THEN SubSeq(h, 1, i + 1) ELSE h
      pushed == Append(cut, d)
  IN IF Len(pushed) > HistoryCap
       THEN [h |-> Tail(pushed), i |-> i]
       ELSE [h |-> pushed, i |-> i + 1]

\* undo() whose write-back is not guarded by the cursor test
UndoStepUnguarded(h, i) ==
  IF i > 0 THEN [i |-> i - 1, acted |-> TRUE] ELSE [i |-> i, acted |-> TRUE]

\* redo() that stops one entry short of the end
RedoStepShort(h, i) ==
  IF i < Len(h) - 2 THEN [i |-> i + 1, acted |-> TRUE] ELSE [i |-> i, acted |-> FALSE]

\* the imperative handle: the cursor after undo() / redo(), and whether the
\* body of the `if` ran (write-back to canvas and parent, flags reported)
UndoStep(h, i) ==
  IF i > 0 THEN [i |-> i - 1, acted |-> TRUE] ELSE [i |-> i, acted |-> FALSE]

RedoStep(h, i) ==
  IF i < Len(h) - 1 THEN [i |-> i + 1, acted |-> TRUE] ELSE [i |-> i, acted |-> FALSE]

\* ------------------------------------------------------------- Canvas view
\* App render: the Canvas is replaced by an <img> while playing outside cinema mode
CanvasShown(playing, cinema) == ~(playing /\ ~cinema)

\* a dependency list that also holds the layers' content
HistoryEffectDepsWithLayers(fr, cfi, ali, size) ==
  <<fr[cfi + 1].id, ali, size, fr[cfi + 1].layers>>

\* the dependency list of the history-reset effect
HistoryEffectDeps(fr, cfi, ali, size) == <<fr[cfi + 1].id, ali, size>>

\* layers[activeLayerIndex] as passed to the Canvas
LayerProp(fr, cfi, ali) == fr[cfi + 1].layers[ali + 1]

\* the closure captured by updateLayerAndComposite and by handleDrawEnd; id
\* records the frame that frames[currentFrameIndex] was at the call
Request(d) ==
  [data |-> d, layers |-> frames[currentFrameIndex + 1].layers,
   ali |-> activeLayerIndex, cfi |-> currentFrameIndex,
   id |-> frames[currentFrameIndex + 1].id]

\* React commit of the new App state into the Canvas: unmount, mount, or the
\* history-reset effect.  h, i, ign, bmp, drw, hs are the Canvas refs/state and
\* the reported flags as the handler left them.
CanvasCommit(h, i, ign, bmp, drw, hs) ==
  IF currentFrameIndex' < 0 \/ currentFrameIndex' >= Len(frames')
  THEN \* frames[currentFrameIndex] is undefined: the render throws
       /\ crashed' = TRUE
       /\ canvasMounted' = FALSE
       /\ history' = <<>> /\ historyIndex' = -1 /\ ignoreFrameUpdate' = FALSE
       /\ canvasBitmap' = Blank /\ isDrawing' = FALSE /\ historyState' = hs
  ELSE /\ crashed' = crashed
       /\ IF ~CanvasShown(isPlaying', cinemaMode')
          THEN /\ canvasMounted' = FALSE
               /\ history' = <<>> /\ historyIndex' = -1 /\ ignoreFrameUpdate' = FALSE
               /\ canvasBitmap' = Blank /\ isDrawing' = FALSE /\ historyState' = hs
          ELSE LET layer   == LayerProp(frames', currentFrameIndex', activeLayerIndex')
                   changed == HistoryEffectDeps(frames', currentFrameIndex',
                                                activeLayerIndex', canvasSize')
                              # HistoryEffectDeps(frames, currentFrameIndex,
                                                  activeLayerIndex, canvasSize)
                   resized == canvasSize' # canvasSize
               IN /\ canvasMounted' = TRUE
                  /\ IF ~canvasMounted
                     THEN \* mount: fresh refs, then the effect
                          /\ history' = <<layer>> /\ historyIndex' = 0
                          /\ ignoreFrameUpdate' = FALSE
                          /\ canvasBitmap' = layer /\ isDrawing' = FALSE
                          /\ historyState' = HistoryFlags(<<layer>>, 0)
                     ELSE IF changed /\ ign
                     THEN \* the effect consumes the flag and returns
                          /\ history' = h /\ historyIndex' = i
                          /\ ignoreFrameUpdate' = FALSE
                          /\ canvasBitmap' = (IF resized THEN Blank ELSE bmp)
                          /\ isDrawing' = drw /\ historyState' = hs
                     ELSE IF changed
                     THEN /\ history' = <<layer>> /\ historyIndex' = 0
                          /\ ignoreFrameUpdate' = FALSE
                          /\ canvasBitmap' = layer /\ isDrawing' = drw
                          /\ historyState' = HistoryFlags(<<layer>>, 0)
                     ELSE /\ history' = h /\ historyIndex' = i
                          /\ ignoreFrameUpdate' = ign
                          /\ canvasBitmap' = bmp /\ isDrawing' = drw
                          /\ historyState' = hs

\* an uncaught error inside a state updater: React unmounts the tree
UpdaterThrows ==
  /\ crashed' = TRUE
  /\ canvasMounted' = FALSE
  /\ history' = <<>> /\ historyIndex' = -1 /\ ignoreFrameUpdate' = FALSE
  /\ canvasBitmap' = Blank /\ isDrawing' = FALSE
  /\ UNCHANGED <<appVars, historyState>>

\* commit with the Canvas refs untouched by the handler
Commit ==
  CanvasCommit(history, historyIndex, ignoreFrameUpdate, canvasBitmap, isDrawing, historyState)

\* ---------------------------------------------------------- playback timer
\* the dependency values of the playback effect differ from those of its last run
EffectPending ==
  IF isPlaying
    THEN IF playIntervalRef = 0 THEN TRUE
         ELSE intervals[playIntervalRef] # [len |-> Len(frames), fps |-> fps]
    ELSE playIntervalRef # 0

\* cleanup of the previous run (clearInterval(ref.current)), then the body
RunPlaybackEffect ==
  LET cleared == IF playIntervalRef = 0 THEN intervals
                 ELSE RemoveAt(intervals, playIntervalRef - 1)
  IN IF isPlaying'
       THEN /\ intervals' = Append(cleared, [len |-> Len(frames'), fps |-> fps'])
            /\ playIntervalRef' = Len(cleared) + 1
       ELSE /\ intervals' = cleared
            /\ playIntervalRef' = 0

\* no floodFill call in progress
NoFill == [phase |-> "idle"]

\* no composite recompute / melt run under observation
NoRun == [phase |-> "idle"]

TypeOK ==
  /\ currentFrameIndex \in Int
  /\ activeLayerIndex \in 0..2
  /\ isPlaying \in BOOLEAN /\ cinemaMode \in BOOLEAN /\ isProcessing \in BOOLEAN
  /\ fps \in FpsValues /\ canvasSize \in Sizes /\ tool \in Tools
  /\ crashed \in BOOLEAN /\ canvasMounted \in BOOLEAN
  /\ ignoreFrameUpdate \in BOOLEAN /\ isDrawing \in BOOLEAN
  /\ canvasBitmap \in Img
  /\ lastMelt \in {"none", "empty", "inserted"}
  /\ pointerDown \in BOOLEAN
  /\ fill.phase \in {"idle", "run", "done", "noop"}
  /\ playIntervalRef \in 0..Len(intervals)
  /\ \A k \in 1..Len(frames) :
       /\ frames[k].dataUrl \in Opaque
       /\ \A l \in 1..3 : frames[k].layers[l] \in Img

\* the editor right after handleCreateProject: one blank frame, the Canvas
\* mounted and its history-reset effect run; b is the input budget explored
InitWith(b) ==
  /\ frames = <<createLayeredFrame(1)>>
  /\ nextId = 2
  /\ currentFrameIndex = 0
  /\ activeLayerIndex = DefaultLayer
  /\ isPlaying = FALSE
  /\ fps = DefaultFps
  /\ cinemaMode = FALSE
  /\ canvasSize = 1
  /\ isProcessing = FALSE
  /\ historyState = [canUndo |-> FALSE, canRedo |-> FALSE]
  /\ tool = "DRAW"
  /\ intervals = <<>>
  /\ playIntervalRef = 0
  /\ playTimeouts = 0
  /\ meltTasks = <<>>
  /\ lastMelt = "none"
  /\ aiTasks = <<>>
  /\ crashed = FALSE
  /\ canvasMounted = TRUE
  /\ history = <<Blank>>
  /\ historyIndex = 0
  /\ ignoreFrameUpdate = FALSE
  /\ canvasBitmap = Blank
  /\ isDrawing = FALSE
  /\ pending = <<>>
  /\ inputs = 0
  /\ budget = b
  /\ pushCount = 0
  /\ branches = 0
  /\ undoCount = 0
  /\ redoCount = 0
  /\ pointerDown = FALSE
  /\ fill = NoFill
  /\ compositeRun = NoRun
  /\ meltRun = NoRun

Init == InitWith(MaxInputs)

\* ------------------------------------------------------------------ guards
\* no pending passive effect: React flushes it before any further render, so
\* every handler below runs after it; only a timer tick can come first
Idle == ~crashed /\ ~EffectPending

\* the editor chrome takes input: the cinema overlay is closed and the pointer
\* is not captured by a stroke (setPointerCapture)
UiReady == Idle /\ ~cinemaMode /\ ~isDrawing

CanvasReady == UiReady /\ canvasMounted

\* one more user input event
Input == inputs < budget /\ inputs' = inputs + 1

\* --------------------------------------------------------- Canvas handlers
\* everything but the input count and the scenario variables
editorVars == <<appVars, fps, tool, timerVars, taskVars, nextId, canvasVars, pending>>

\* startDrawing past the tool tests: setIsDrawing(true) and the initial dot
StartDrawingActs ==
  /\ isDrawing' = TRUE
  /\ \E c \in Img : canvasBitmap' = c
  /\ UNCHANGED <<appVars, fps, tool, timerVars, taskVars, nextId, crashed, canvasMounted,
                 history, historyIndex, ignoreFrameUpdate, historyState, pending>>

\* startDrawing with a brush-family tool: initial dot on the active canvas
StartDrawing ==
  /\ CanvasReady /\ ~isPlaying /\ tool = "DRAW"
  /\ StartDrawingActs
  /\ UNCHANGED scriptVars
  /\ Input

\* draw past its early return: one more segment on the active canvas
DrawActs ==
  /\ \E c \in Img : canvasBitmap' = c
  /\ UNCHANGED <<appVars, fps, tool, timerVars, taskVars, nextId, crashed, canvasMounted,
                 history, historyIndex, ignoreFrameUpdate, isDrawing, historyState, pending>>

\* draw: pointer-move while a stroke is open
Draw ==
  /\ Idle /\ canvasMounted /\ isDrawing /\ ~isPlaying /\ tool = "DRAW"
  /\ DrawActs
  /\ UNCHANGED scriptVars
  /\ Input

\* stopDrawing past its two early returns: snapshot, push, write-back
StopDrawingActs ==
  LET r == AddToHistory(history, historyIndex, canvasBitmap)
  IN /\ history' = r.h
     /\ historyIndex' = r.i
     /\ historyState' = HistoryFlags(r.h, r.i)
     /\ pending' = Append(pending, Request(canvasBitmap))
     /\ isDrawing' = FALSE
     /\ UNCHANGED <<appVars, fps, tool, timerVars, taskVars, nextId, crashed,
                    canvasMounted, ignoreFrameUpdate, canvasBitmap>>

\* stopDrawing: pointer-up or pointer-leave
StopDrawing ==
  /\ Idle /\ canvasMounted
  /\ IF tool = "PICKER" \/ ~isDrawing
       THEN UNCHANGED vars
       ELSE StopDrawingActs /\ Input /\ UNCHANGED scriptVars

\* a floodFill that runs the scan even when the seed has the fill colour
FloodFillNeverReturnsEarly(pixel, fillColor) == FALSE

\* floodFill's early return: the seed pixel already has the fill colour
FloodFillReturnsEarly(pixel, fillColor) == pixel = fillColor

\* floodFill(x, y, c) on the 1x1 bitmap: early return, or recolour, push and
\* write-back
FillActs(c) ==
  IF FloodFillReturnsEarly(canvasBitmap, c)
    THEN UNCHANGED editorVars
    ELSE LET r == AddToHistory(history, historyIndex, c)
         IN /\ canvasBitmap' = c
            /\ history' = r.h
            /\ historyIndex' = r.i
            /\ historyState' = HistoryFlags(r.h, r.i)
            /\ pending' = Append(pending, Request(c))
            /\ UNCHANGED <<appVars, fps, tool, timerVars, taskVars, nextId, crashed,
                           canvasMounted, ignoreFrameUpdate, isDrawing>>

\* startDrawing with the Fill tool: floodFill on the 1x1 bitmap
Fill ==
  /\ CanvasReady /\ ~isPlaying /\ tool = "FILL"
  /\ \E c \in Opaque : FillActs(c)
  /\ UNCHANGED scriptVars
  /\ Input

\* pickColorAt, then handleColorPicked: the tool becomes the pencil
PickColorActs ==
  /\ tool' = "DRAW"
  /\ UNCHANGED <<appVars, fps, timerVars, taskVars, nextId, canvasVars, pending>>

\* startDrawing with the Picker tool: pickColorAt, then handleColorPicked
PickColor ==
  /\ CanvasReady /\ ~isPlaying /\ tool = "PICKER"
  /\ PickColorActs
  /\ UNCHANGED scriptVars
  /\ Input

\* onUpdateSettings({tool}) with another tool
SetToolActs ==
  /\ \E t \in Tools \ {tool} : tool' = t
  /\ UNCHANGED <<appVars, fps, timerVars, taskVars, nextId, canvasVars, pending>>

\* Toolbar: onUpdateSettings({tool})
SetTool ==
  /\ UiReady
  /\ SetToolActs
  /\ UNCHANGED scriptVars
  /\ Input

\* ---------------------------------------------------- one pointer gesture
\* onPointerDown = startDrawing: no test of isDrawing; the tool decides
PointerDown ==
  /\ Idle /\ canvasMounted /\ ~cinemaMode /\ ~isPlaying
  /\ ~pointerDown
  /\ pointerDown' = TRUE
  /\ CASE tool = "PICKER" -> PickColorActs
       [] tool = "FILL"   -> \E c \in Opaque : FillActs(c)
       [] tool = "DRAW"   -> StartDrawingActs
  /\ UNCHANGED <<budget, pushCount, branches, undoCount, redoCount, fill,
                 compositeRun, meltRun>>
  /\ Input

\* onPointerMove = draw, with its early return
PointerMove ==
  /\ Idle /\ canvasMounted /\ ~cinemaMode
  /\ IF isDrawing /\ ~isPlaying /\ tool = "DRAW" THEN DrawActs ELSE UNCHANGED editorVars
  /\ UNCHANGED scriptVars
  /\ Input

\* stopDrawing with its two early returns
StopDrawingCall ==
  IF tool = "PICKER" \/ ~isDrawing THEN UNCHANGED editorVars ELSE StopDrawingActs

\* onPointerUp = stopDrawing
PointerUp ==
  /\ Idle /\ canvasMounted /\ ~cinemaMode
  /\ pointerDown
  /\ pointerDown' = FALSE
  /\ StopDrawingCall
  /\ UNCHANGED <<budget, pushCount, branches, undoCount, redoCount, fill,
                 compositeRun, meltRun>>
  /\ Input

\* onPointerLeave = stopDrawing; a pressed pointer is captured and cannot leave
PointerLeave ==
  /\ Idle /\ canvasMounted /\ ~cinemaMode
  /\ ~pointerDown
  /\ StopDrawingCall
  /\ UNCHANGED scriptVars
  /\ Input

\* a toolbar button activated while the pointer is on the canvas (a second
\* touch, or the keyboard on the focused button): the capture of the drawing
\* pointer does not stop it
ToolKey ==
  /\ Idle /\ ~cinemaMode
  /\ SetToolActs
  /\ UNCHANGED scriptVars
  /\ Input

\* the body shared by undo and redo once the cursor is computed: u is the
\* result of UndoStep / RedoStep
HandleMoves(u) ==
  IF u.acted
    THEN /\ historyIndex' = u.i
         /\ ignoreFrameUpdate' = TRUE
         /\ pending' = Append(pending, Request(history[u.i + 1]))
         /\ canvasBitmap' = history[u.i + 1]
         /\ historyState' = HistoryFlags(history, u.i)
         /\ UNCHANGED <<appVars, fps, tool, timerVars, taskVars, nextId, crashed,
                        canvasMounted, history, isDrawing>>
    ELSE /\ historyIndex' = u.i
         /\ UNCHANGED <<appVars, fps, tool, timerVars, taskVars, nextId, crashed,
                        canvasMounted, history, ignoreFrameUpdate, canvasBitmap,
                        isDrawing, historyState, pending>>

\* CanvasHandle.undo
UndoCall == CanvasReady /\ HandleMoves(UndoStep(history, historyIndex)) /\ Input

Undo == UndoCall /\ UNCHANGED scriptVars

\* CanvasHandle.redo
RedoCall == CanvasReady /\ HandleMoves(RedoStep(history, historyIndex)) /\ Input

Redo == RedoCall /\ UNCHANGED scriptVars

\* handleDrawEnd applied to a frame list: undefined when the closure's index
\* no longer names a frame (currentFrame.layers throws)
HandleDrawEnd(fr, cfi, ali, layerData, compositeData) ==
  [fr EXCEPT ![cfi + 1] = [id |-> @.id,
                           dataUrl |-> compositeData,
                           layers |-> [@.layers EXCEPT ![ali + 1] = layerData]]]

\* loadAndDraw completes: the composite is drawn from the layers captured at
\* the call, then onDrawEnd runs with the indices captured at the call
DeliverDrawEnd ==
  /\ Idle
  /\ \E k \in 1..Len(pending) :
       LET r == pending[k]
           composite == Flatten([r.layers EXCEPT ![r.ali + 1] = r.data])
       IN /\ pending' = RemoveAt(pending, k - 1)
          /\ IF r.cfi >= Len(frames)
               THEN UpdaterThrows
               ELSE /\ frames' = HandleDrawEnd(frames, r.cfi, r.ali, r.data, composite)
                    /\ UNCHANGED <<currentFrameIndex, activeLayerIndex, isPlaying,
                                   cinemaMode, canvasSize>>
                    /\ Commit
  /\ UNCHANGED <<fps, tool, timerVars, taskVars, nextId, inputs, scriptVars>>

\* ------------------------------------------------------------ App handlers
\* Timeline: onSelectFrame = setCurrentFrameIndex
SelectFrame ==
  /\ UiReady
  /\ \E i \in 0..(Len(frames) - 1) : currentFrameIndex' = i
  /\ UNCHANGED <<frames, activeLayerIndex, isPlaying, cinemaMode, canvasSize>>
  /\ Commit
  /\ UNCHANGED <<fps, tool, timerVars, taskVars, nextId, pending, scriptVars>>
  /\ Input

\* LayersPanel: onSelectLayer = setActiveLayerIndex
SelectLayer ==
  /\ UiReady
  /\ \E l \in 0..2 : activeLayerIndex' = l
  /\ UNCHANGED <<frames, currentFrameIndex, isPlaying, cinemaMode, canvasSize>>
  /\ Commit
  /\ UNCHANGED <<fps, tool, timerVars, taskVars, nextId, pending, scriptVars>>
  /\ Input

\* handleAddFrame
AddFrame ==
  /\ UiReady
  /\ Len(frames) < MaxFrames
  /\ frames' = Splice(frames, currentFrameIndex + 1, <<createLayeredFrame(nextId)>>)
  /\ currentFrameIndex' = currentFrameIndex + 1
  /\ nextId' = nextId + 1
  /\ UNCHANGED <<activeLayerIndex, isPlaying, cinemaMode, canvasSize>>
  /\ Commit
  /\ UNCHANGED <<fps, tool, timerVars, taskVars, pending, scriptVars>>
  /\ Input

\* handleDuplicateFrame
DuplicateFrame ==
  /\ UiReady
  /\ Len(frames) < MaxFrames
  /\ LET currentFrame == frames[currentFrameIndex + 1]
         newFrame == [id |-> nextId, dataUrl |-> currentFrame.dataUrl,
                      layers |-> currentFrame.layers]
     IN frames' = Splice(frames, currentFrameIndex + 1, <<newFrame>>)
  /\ currentFrameIndex' = currentFrameIndex + 1
  /\ nextId' = nextId + 1
  /\ UNCHANGED <<activeLayerIndex, isPlaying, cinemaMode, canvasSize>>
  /\ Commit
  /\ UNCHANGED <<fps, tool, timerVars, taskVars, pending, scriptVars>>
  /\ Input

\* handleDeleteFrame that moves the cursor only for frames before it
DeleteResultStrict(fr, cfi, index) ==
  IF Len(fr) <= 1
    THEN [frames |-> fr, cfi |-> cfi]
    ELSE [frames |-> RemoveAt(fr, index),
          cfi |-> IF cfi > index THEN cfi - 1 ELSE cfi]

\* handleDeleteFrame(index): the new frame list and cursor
DeleteResult(fr, cfi, index) ==
  IF Len(fr) <= 1
    THEN [frames |-> fr, cfi |-> cfi]
    ELSE [frames |-> RemoveAt(fr, index),
          cfi |-> IF cfi >= index /\ cfi > 0 THEN cfi - 1 ELSE cfi]

DeleteFrame ==
  /\ UiReady
  /\ Len(frames) <= MaxFrames
  /\ \E index \in 0..(Len(frames) - 1) :
       LET r == DeleteResult(frames, currentFrameIndex, index)
       IN /\ frames' = r.frames
          /\ currentFrameIndex' = r.cfi
  /\ UNCHANGED <<activeLayerIndex, isPlaying, cinemaMode, canvasSize>>
  /\ Commit
  /\ UNCHANGED <<fps, tool, timerVars, taskVars, nextId, pending, scriptVars>>
  /\ Input

\* handleClearFrame
ClearFrame ==
  /\ UiReady
  /\ frames' = [frames EXCEPT ![currentFrameIndex + 1] = createLayeredFrame(nextId)]
  /\ nextId' = nextId + 1
  /\ UNCHANGED <<currentFrameIndex, activeLayerIndex, isPlaying, cinemaMode, canvasSize>>
  /\ Commit
  /\ UNCHANGED <<fps, tool, timerVars, taskVars, pending, scriptVars>>
  /\ Input

\* Timeline: onTogglePlay
TogglePlay ==
  /\ UiReady
  /\ isPlaying' = ~isPlaying
  /\ UNCHANGED <<frames, currentFrameIndex, activeLayerIndex, cinemaMode, canvasSize>>
  /\ Commit
  /\ UNCHANGED <<fps, tool, timerVars, taskVars, nextId, pending, scriptVars>>
  /\ Input

\* Timeline: onChangeFps = setFps
ChangeFps ==
  /\ UiReady
  /\ \E f \in FpsValues \ {fps} : fps' = f
  /\ UNCHANGED <<appVars, tool, timerVars, taskVars, nextId, canvasVars, pending, scriptVars>>
  /\ Input

\* ResizeObserver: updateSize with new client dimensions
Resize ==
  /\ UiReady
  /\ \E z \in Sizes \ {canvasSize} : canvasSize' = z
  /\ UNCHANGED <<frames, currentFrameIndex, activeLayerIndex, isPlaying, cinemaMode>>
  /\ Commit
  /\ UNCHANGED <<fps, tool, timerVars, taskVars, nextId, pending, scriptVars>>
  /\ Input

\* Timeline: onEnterCinema, then CinemaView's mount effect (auto-play)
EnterCinema ==
  /\ UiReady
  /\ cinemaMode' = TRUE
  /\ isPlaying' = TRUE
  /\ UNCHANGED <<frames, currentFrameIndex, activeLayerIndex, canvasSize>>
  /\ Commit
  /\ UNCHANGED <<fps, tool, timerVars, taskVars, nextId, pending, scriptVars>>
  /\ Input

\* CinemaView: onClose
CloseCinema ==
  /\ Idle /\ cinemaMode
  /\ cinemaMode' = FALSE
  /\ isPlaying' = FALSE
  /\ UNCHANGED <<frames, currentFrameIndex, activeLayerIndex, canvasSize>>
  /\ Commit
  /\ UNCHANGED <<fps, tool, timerVars, taskVars, nextId, pending, scriptVars>>
  /\ Input

\* CinemaView: onTogglePlay
CinemaTogglePlay ==
  /\ Idle /\ cinemaMode
  /\ isPlaying' = ~isPlaying
  /\ UNCHANGED <<frames, currentFrameIndex, activeLayerIndex, cinemaMode, canvasSize>>
  /\ Commit
  /\ UNCHANGED <<fps, tool, timerVars, taskVars, nextId, pending, scriptVars>>
  /\ Input

\* the playback effect runs: cleanup of the previous run, then the body
PlaybackEffect ==
  /\ ~crashed /\ EffectPending
  /\ UNCHANGED <<appVars, fps, tool, taskVars, nextId, canvasVars, pending, inputs, scriptVars>>
  /\ RunPlaybackEffect

\* an armed interval fires: setCurrentFrameIndex(prev => (prev + 1) % frames.length)
\* with the frames.length its closure captured; the render that follows
\* flushes a pending playback effect first
Tick ==
  /\ ~crashed
  /\ \E k \in 1..Len(intervals) :
       currentFrameIndex' = (currentFrameIndex + 1) % intervals[k].len
  /\ UNCHANGED <<frames, activeLayerIndex, isPlaying, cinemaMode, canvasSize, fps>>
  /\ IF EffectPending THEN RunPlaybackEffect ELSE UNCHANGED timerVars
  /\ Commit
  /\ UNCHANGED <<tool, taskVars, nextId, pending, inputs, scriptVars>>

\* ------------------------------------------------------------ melt, AI edit
\* generateMeltAnimation on a 1x1 source: the single column's offset is below
\* 1 in frame 0 at most, so frame 0 shows the source or white and the later
\* frames are white
\* a frame loop that stops one frame early
MeltFramesShort(src, first) ==
  [f \in 1..(MeltFrameCount - 1) |-> IF f = 1 THEN first ELSE White]

MeltFrames(src, first) ==
  [f \in 1..MeltFrameCount |-> IF f = 1 THEN first ELSE White]

\* a handler that does not look at the processing flag
SurpriseNeverReturnsEarly(processing) == FALSE

\* if (isProcessing) return
SurpriseReturnsEarly(processing) == processing

\* handleSurprise up to the await
Surprise ==
  /\ UiReady
  /\ Len(frames) <= MaxFrames
  /\ IF SurpriseReturnsEarly(isProcessing)
       THEN UNCHANGED vars
       ELSE /\ isProcessing' = TRUE
            /\ meltTasks' = Append(meltTasks,
                                   [cfi |-> currentFrameIndex,
                                    id |-> frames[currentFrameIndex + 1].id,
                                    src |-> frames[currentFrameIndex + 1].dataUrl])
            /\ UNCHANGED <<appVars, fps, tool, timerVars, playTimeouts, lastMelt, aiTasks,
                           nextId, canvasVars, pending, scriptVars>>
            /\ Input

\* an empty result that leaves the processing flag set
MeltEmptyStaysBusy ==
  /\ Idle
  /\ \E k \in 1..Len(meltTasks) : meltTasks' = RemoveAt(meltTasks, k - 1)
  /\ lastMelt' = "empty"
  /\ UNCHANGED <<appVars, fps, tool, timerVars, playTimeouts, aiTasks, isProcessing, nextId,
                 canvasVars, pending, inputs, scriptVars>>

\* handleSurprise after the await, empty result
MeltEmpty ==
  /\ Idle
  /\ \E k \in 1..Len(meltTasks) : meltTasks' = RemoveAt(meltTasks, k - 1)
  /\ lastMelt' = "empty"
  /\ isProcessing' = FALSE
  /\ UNCHANGED <<appVars, fps, tool, timerVars, playTimeouts, aiTasks, nextId,
                 canvasVars, pending, inputs, scriptVars>>

\* handleSurprise after the await, MeltFrameCount frames
MeltInsert ==
  /\ Idle
  /\ \E k \in 1..Len(meltTasks) : \E first \in {meltTasks[k].src, White} :
       LET t == meltTasks[k]
           urls == MeltFrames(t.src, first)
           newFramesObj == [f \in 1..Len(urls) |->
                              [id |-> nextId + f - 1, dataUrl |-> urls[f],
                               layers |-> <<urls[f], Blank, Blank>>]]
       IN /\ meltTasks' = RemoveAt(meltTasks, k - 1)
          /\ frames' = Splice(frames, t.cfi + 1, newFramesObj)
  /\ nextId' = nextId + Len(frames') - Len(frames)
  /\ playTimeouts' = playTimeouts + 1
  /\ lastMelt' = "inserted"
  /\ isProcessing' = FALSE
  /\ UNCHANGED <<currentFrameIndex, activeLayerIndex, isPlaying, cinemaMode, canvasSize>>
  /\ Commit
  /\ UNCHANGED <<fps, tool, timerVars, aiTasks, pending, inputs, scriptVars>>

\* the timeout armed by handleSurprise fires: setIsPlaying(true)
FirePlayTimeout ==
  /\ Idle
  /\ playTimeouts > 0
  /\ playTimeouts' = playTimeouts - 1
  /\ isPlaying' = TRUE
  /\ UNCHANGED <<frames, currentFrameIndex, activeLayerIndex, cinemaMode, canvasSize>>
  /\ Commit
  /\ UNCHANGED <<fps, tool, timerVars, meltTasks, lastMelt, aiTasks, isProcessing, nextId,
                 pending, inputs, scriptVars>>

\* handleAIEdit up to the await
AIEditStart ==
  /\ UiReady
  /\ aiTasks' = Append(aiTasks, [cfi |-> currentFrameIndex, ali |-> activeLayerIndex,
                                 id |-> frames[currentFrameIndex + 1].id,
                                 src |-> frames[currentFrameIndex + 1].dataUrl])
  /\ UNCHANGED <<appVars, fps, tool, timerVars, playTimeouts, meltTasks, lastMelt,
                 isProcessing, nextId, canvasVars, pending, scriptVars>>
  /\ Input

\* the fallback of editFrameWithAI: ctx.filter = 'grayscale(100%)' keeps alpha
\* and replaces each pixel by its luminance; Blank, White and Black are
\* achromatic, so each is its own grayscale
Grayscale(img) ==
  CASE img = Blank -> Blank
    [] img = White -> White
    [] img = Black -> Black

\* editFrameWithAI(imageDataUrl, prompt): the image of the response, or, when
\* anything in the try block throws (no key, request failed, no image part),
\* the grayscale of the input; the promise resolves either way
editFrameWithAI(imageDataUrl, failed, response) ==
  IF failed THEN Grayscale(imageDataUrl) ELSE response

\* handleAIEdit after the await: handleDrawEnd(newImageData, newImageData)
AIEditResolve(failed) ==
  /\ Idle
  /\ \E k \in 1..Len(aiTasks) : \E response \in Opaque :
       LET t == aiTasks[k]
           newImageData == editFrameWithAI(t.src, failed, response)
       IN /\ aiTasks' = RemoveAt(aiTasks, k - 1)
          /\ IF t.cfi >= Len(frames)
               THEN UpdaterThrows
               ELSE /\ frames' = HandleDrawEnd(frames, t.cfi, t.ali,
                                               newImageData, newImageData)
                    /\ UNCHANGED <<currentFrameIndex, activeLayerIndex, isPlaying,
                                   cinemaMode, canvasSize>>
                    /\ Commit
  /\ UNCHANGED <<fps, tool, timerVars, playTimeouts, meltTasks, lastMelt, isProcessing,
                 nextId, pending, inputs, scriptVars>>

\* the request succeeded and returned an image
AIEditComplete == AIEditResolve(FALSE)

\* the request failed: the catch block resolves with the grayscale fallback
AIEditFallback == AIEditResolve(TRUE)

\* ------------------------------------------------- floodFill on a pixel grid
\* the grid is FillWidth x FillHeight; a pixel's four bytes are one colour and
\* pos counts pixels, so the code's pos is 4 times this one
Pixels == 0..(FillWidth * FillHeight - 1)

\* the colours a layer buffer holds before the fill
PixelColors == {Blank, Black}

Pos(x, y) == y * FillWidth + x

matchStartColor(data, start, pos) == data[pos] = start

colorPixel(data, pos, c) == [data EXCEPT ![pos] = c]

\* a scan that starts at the popped row instead of the top of the run
ScanUpStays(data, start, x, y) == y

\* while (y >= 0 && matchStartColor(pos)) { y--; pos -= width * 4 }, then
\* y++: the topmost row of the run of matching pixels that ends at (x, y)
RECURSIVE ScanUp(_, _, _, _)
ScanUp(data, start, x, y) ==
  IF y >= 0 /\ matchStartColor(data, start, Pos(x, y))
    THEN ScanUp(data, start, x, y - 1)
    ELSE y + 1

\* a scan-down side that pushes the neighbour whatever its colour
ReachSideAnyColour(data, start, inside, nx, y, s) ==
  IF ~inside THEN s
  ELSE IF ~s.reach
         THEN [stack |-> Append(s.stack, <<nx, y>>), reach |-> TRUE]
         ELSE s

\* one side of the scan-down body: push the neighbour column once per run of
\* matching neighbours; s = [stack, reach], nx the neighbour's column
ReachSide(data, start, inside, nx, y, s) ==
  IF ~inside THEN s
  ELSE IF matchStartColor(data, start, Pos(nx, y))
         THEN IF ~s.reach
                THEN [stack |-> Append(s.stack, <<nx, y>>), reach |-> TRUE]
                ELSE s
         ELSE [stack |-> s.stack, reach |-> FALSE]

\* while (y < height && matchStartColor(pos)) { colorPixel; left; right; y++ }
RECURSIVE ScanDown(_, _, _, _, _, _, _, _)
ScanDown(data, stack, start, c, x, y, reachLeft, reachRight) ==
  IF y < FillHeight /\ matchStartColor(data, start, Pos(x, y))
    THEN LET d == colorPixel(data, Pos(x, y), c)
             l == ReachSide(d, start, x > 0, x - 1, y,
                            [stack |-> stack, reach |-> reachLeft])
             r == ReachSide(d, start, x < FillWidth - 1, x + 1, y,
                            [stack |-> l.stack, reach |-> reachRight])
         IN ScanDown(d, r.stack, start, c, x, y + 1, l.reach, r.reach)
    ELSE [data |-> data, stack |-> stack]

\* floodFill(startX, startY, fillColor) up to the loop: the early return, or
\* the stack with the seed; f carries the counts of history pushes and
\* composite recomputes made so far
FloodFillCall(data, x, y, c, calls, pushed, recomputed) ==
  LET start == data[Pos(x, y)]
  IN [phase |-> IF FloodFillReturnsEarly(start, c) THEN "noop" ELSE "run",
      data |-> data, orig |-> data, x |-> x, y |-> y, start |-> start, color |-> c,
      stack |-> IF FloodFillReturnsEarly(start, c) THEN <<>> ELSE << <<x, y>> >>,
      calls |-> calls, pushed |-> pushed, recomputed |-> recomputed,
      pushedBefore |-> pushed, recomputedBefore |-> recomputed, pops |-> 0,
      seeds |-> IF FloodFillReturnsEarly(start, c) THEN 0 ELSE 1, stale |-> 0]

fillFrame == <<editorVars, inputs, budget, pushCount, branches, undoCount, redoCount,
               pointerDown, compositeRun, meltRun>>

\* floodFill is called on a buffer with a seed and a fill colour
FloodFillStart ==
  /\ fill.phase = "idle"
  /\ \E data \in [Pixels -> PixelColors] :
     \E x \in 0..(FillWidth - 1) : \E y \in 0..(FillHeight - 1) : \E c \in Opaque :
       fill' = FloodFillCall(data, x, y, c, 1, 0, 0)
  /\ UNCHANGED fillFrame

\* one iteration of while (stack.length)
FloodFillPop ==
  /\ fill.phase = "run" /\ fill.stack # <<>>
  /\ LET pop  == fill.stack[Len(fill.stack)]
         rest == SubSeq(fill.stack, 1, Len(fill.stack) - 1)
         top  == ScanUp(fill.data, fill.start, pop[1], pop[2])
         r    == ScanDown(fill.data, rest, fill.start, fill.color, pop[1], top,
                          FALSE, FALSE)
     IN fill' = [fill EXCEPT !.data = r.data, !.stack = r.stack, !.pops = @ + 1,
                             !.seeds = @ + Len(r.stack) - Len(rest),
                             !.stale = IF matchStartColor(fill.data, fill.start,
                                                          Pos(pop[1], pop[2]))
                                         THEN @ ELSE @ + 1]
  /\ UNCHANGED fillFrame

\* the stack is empty: putImageData, addToHistory, updateLayerAndComposite
FloodFillFinish ==
  /\ fill.phase = "run" /\ fill.stack = <<>>
  /\ fill' = [fill EXCEPT !.phase = "done", !.pushed = @ + 1, !.recomputed = @ + 1]
  /\ UNCHANGED fillFrame

\* the same seed is filled again with the same colour
FloodFillRepeat ==
  /\ fill.phase = "done" /\ fill.calls = 1
  /\ fill' = FloodFillCall(fill.data, fill.x, fill.y, fill.color, 2,
                           fill.pushed, fill.recomputed)
  /\ UNCHANGED fillFrame

NextFill == FloodFillStart \/ FloodFillPop \/ FloodFillFinish \/ FloodFillRepeat

SpecFill == Init /\ [][NextFill]_vars

\* floodFill is synchronous code on the event loop: a call that has started
\* keeps running until it returns
SpecFillFair == SpecFill /\ WF_vars(FloodFillPop) /\ WF_vars(FloodFillFinish)

\* ------------------------------------ updateLayerAndComposite, load by load
compositeFrame == <<editorVars, inputs, budget, pushCount, branches, undoCount, redoCount,
                    pointerDown, fill, meltRun>>

\* an array of images in the order their loads completed
PromiseAllByCompletion(srcs, loaded) == [k \in 1..3 |-> srcs[loaded[k]]]

\* await Promise.all(promises): the images in the order of the promises, that
\* is of layers.map, whatever order the loads completed in
PromiseAll(srcs, loaded) == srcs

\* updateLayerAndComposite(newActiveLayerData) up to the await: white fill,
\* one image load per layer, the active one from the new data
CompositeCall(layers, ali, data, runs, first) ==
  [phase |-> "loading", layers |-> layers, ali |-> ali, data |-> data,
   srcs |-> [layers EXCEPT ![ali + 1] = data], loaded |-> <<>>, canvas |-> White,
   runs |-> runs, first |-> first]

CompositeStart ==
  /\ compositeRun.phase = "idle"
  /\ \E l0 \in Img : \E l1 \in Img : \E l2 \in Img : \E ali \in 0..2 : \E data \in Img :
       compositeRun' = CompositeCall(<<l0, l1, l2>>, ali, data, 1, White)
  /\ UNCHANGED compositeFrame

\* img.onload of one of the three images
ImageLoaded ==
  /\ compositeRun.phase = "loading"
  /\ \E k \in 1..3 :
       /\ \A j \in 1..Len(compositeRun.loaded) : compositeRun.loaded[j] # k
       /\ compositeRun' = [compositeRun EXCEPT !.loaded = Append(@, k)]
  /\ UNCHANGED compositeFrame

\* all three loaded: images.forEach(drawImage), then onDrawEnd(data, composite)
CompositeDraw ==
  /\ compositeRun.phase = "loading" /\ Len(compositeRun.loaded) = 3
  /\ LET images == PromiseAll(compositeRun.srcs, compositeRun.loaded)
     IN compositeRun' =
          [compositeRun EXCEPT
             !.phase = "drawn",
             !.canvas = DrawOver(DrawOver(DrawOver(@, images[1]), images[2]), images[3])]
  /\ UNCHANGED compositeFrame

\* a second recompute over the same three layer inputs
CompositeAgain ==
  /\ compositeRun.phase = "drawn" /\ compositeRun.runs = 1
  /\ compositeRun' = CompositeCall(compositeRun.layers, compositeRun.ali, compositeRun.data,
                                   2, compositeRun.canvas)
  /\ UNCHANGED compositeFrame

NextComposite == CompositeStart \/ ImageLoaded \/ CompositeDraw \/ CompositeAgain

SpecComposite == Init /\ [][NextComposite]_vars

\* ------------------------------ generateMeltAnimation on a grid, by column
\* source pixel (x, y) carries a label of its own, so that a copy shows where
\* it came from; the code copies the four bytes without looking at them
SrcPixel(x, y) == 1 + y * MeltGridWidth + x

MeltPixels == 0..(MeltGridWidth * MeltGridHeight - 1)

\* velocities and offsets are kept in tenths of a pixel, rounded down
\* Math.random() * 2 with random 0, and Math.random() * 8 + 4 with random 1/8
InitialVelocities == {0, 50}

\* 0.8 + Math.random() * 0.5 with random 0 and random 0.8
GravityValues == {8, 12}

meltFrame == <<editorVars, inputs, budget, pushCount, branches, undoCount, redoCount,
               pointerDown, fill, compositeRun>>

\* a column render that wraps the rows shifted past the bottom to the top
RenderColumnWrapping(dest, x, s) ==
  [p \in MeltPixels |->
     IF p % MeltGridWidth = x
       THEN SrcPixel(x, ((p \div MeltGridWidth) - s) % MeltGridHeight)
       ELSE dest[p]]

\* for (y = 0; y < height; y++) { destY = y + s; if (destY < height) copy }:
\* destination row r of column x receives source row r - s when that is a row
RenderColumn(dest, x, s) ==
  [p \in MeltPixels |->
     LET r == p \div MeltGridWidth
     IN IF p % MeltGridWidth = x /\ r - s \in 0..(MeltGridHeight - 1)
          THEN SrcPixel(x, r - s)
          ELSE dest[p]]

\* a write of the column render whose index is not in the buffer
WritesOutside(x, s) ==
  \E y \in 0..(MeltGridHeight - 1) :
    y + s < MeltGridHeight /\ (y + s) * MeltGridWidth + x \notin MeltPixels

\* createImageData filled with opaque white
WhiteFrame == [p \in MeltPixels |-> PaperWhite]

\* img.onload past its guards: the physics state, then the first white frame
MeltRenderStart ==
  /\ meltRun.phase = "idle"
  /\ \E v \in [1..MeltGridWidth -> InitialVelocities] :
       meltRun' = [phase |-> "frame", f |-> 0, x |-> 0, velocities |-> v,
                   yOffsets |-> [k \in 1..MeltGridWidth |-> 0], dest |-> WhiteFrame,
                   shifts |-> <<>>, frames |-> 0, outside |-> FALSE]
  /\ UNCHANGED meltFrame

\* one iteration of for (x = 0; x < width; x++): gravity, viscosity, move,
\* render of column x
MeltColumn ==
  /\ meltRun.phase = "frame" /\ meltRun.x < MeltGridWidth
  /\ \E g \in GravityValues :
       LET x   == meltRun.x
           vel == meltRun.velocities
           off == meltRun.yOffsets
           v1  == vel[x + 1] + g
           viscous == x > 1 /\ x < MeltGridWidth - 2
           avgVel == (vel[x] + v1 + vel[x + 2]) \div 3
           v2  == IF viscous THEN (v1 * 7 + avgVel * 3) \div 10 ELSE v1
           avgOffset == (off[x] + off[x + 1] + off[x + 2]) \div 3
           o1  == IF viscous THEN (off[x + 1] * 9 + avgOffset) \div 10 ELSE off[x + 1]
           o2  == o1 + v2
           currentOffset == o2 \div 10
       IN meltRun' = [meltRun EXCEPT
                        !.velocities = [vel EXCEPT ![x + 1] = v2],
                        !.yOffsets = [off EXCEPT ![x + 1] = o2],
                        !.dest = RenderColumn(@, x, currentOffset),
                        !.outside = @ \/ WritesOutside(x, currentOffset),
                        !.shifts = Append(@, currentOffset),
                        !.x = x + 1]
  /\ UNCHANGED meltFrame

\* putImageData, frames.push; then the next frame or resolve(frames)
MeltFramePush ==
  /\ meltRun.phase = "frame" /\ meltRun.x = MeltGridWidth
  /\ meltRun' = IF meltRun.f + 1 < MaxRenderFrames
                  THEN [meltRun EXCEPT !.f = @ + 1, !.x = 0, !.dest = WhiteFrame,
                                       !.shifts = <<>>, !.frames = @ + 1]
                  ELSE [meltRun EXCEPT !.phase = "done", !.frames = @ + 1]
  /\ UNCHANGED meltFrame

NextMeltRender == MeltRenderStart \/ MeltColumn \/ MeltFramePush

SpecMeltRender == Init /\ [][NextMeltRender]_vars

\* ----------------------------------------------------------- specification
Next ==
  \/ StartDrawing \/ Draw \/ StopDrawing \/ Fill \/ PickColor \/ SetTool
  \/ Undo \/ Redo \/ DeliverDrawEnd
  \/ SelectFrame \/ SelectLayer \/ AddFrame \/ DuplicateFrame \/ DeleteFrame \/ ClearFrame
  \/ TogglePlay \/ ChangeFps \/ Resize
  \/ EnterCinema \/ CloseCinema \/ CinemaTogglePlay
  \/ PlaybackEffect \/ Tick
  \/ Surprise \/ MeltEmpty \/ MeltInsert \/ FirePlayTimeout
  \/ AIEditStart \/ AIEditComplete \/ AIEditFallback

Spec == Init /\ [][Next]_vars

\* the drawing session: strokes, fills, undo/redo and everything that changes
\* or keeps the (frame, layer, size) key of the Canvas
NextCanvas ==
  \/ StartDrawing \/ Draw \/ StopDrawing \/ Fill \/ SetTool
  \/ Undo \/ Redo \/ DeliverDrawEnd
  \/ SelectFrame \/ SelectLayer \/ AddFrame \/ DeleteFrame \/ ClearFrame
  \/ TogglePlay \/ Resize \/ PlaybackEffect \/ Tick
  \/ AIEditStart \/ AIEditComplete \/ AIEditFallback

InitCanvas == InitWith(MaxCanvasInputs)

SpecCanvas == InitCanvas /\ [][NextCanvas]_vars

\* the melt effect next to playback, frame-list edits and a stroke that gives
\* the melt a non-white source
NextMelt ==
  \/ StartDrawing \/ StopDrawing \/ DeliverDrawEnd
  \/ SelectFrame \/ AddFrame \/ DeleteFrame
  \/ TogglePlay \/ PlaybackEffect \/ Tick
  \/ Surprise \/ MeltEmpty \/ MeltInsert \/ FirePlayTimeout

InitMelt == InitWith(MaxMeltInputs)

SpecMelt == InitMelt /\ [][NextMelt]_vars

\* the promise of generateMeltAnimation always settles (onload or onerror),
\* and React runs the passive effects of every commit
SpecMeltFair == SpecMelt /\ WF_vars(MeltEmpty \/ MeltInsert) /\ WF_vars(PlaybackEffect)

\* pointer gestures on the canvas with tool changes in between
NextGesture ==
  \/ PointerDown \/ PointerMove \/ PointerUp \/ PointerLeave \/ ToolKey
  \/ DeliverDrawEnd

InitGesture == InitWith(MaxGestureInputs)

SpecGesture == InitGesture /\ [][NextGesture]_vars

\* the timeline: frame list edits, playback and cinema mode, with plain
\* strokes to give the frames content
NextFrames ==
  \/ StartDrawing \/ StopDrawing \/ DeliverDrawEnd
  \/ SelectFrame \/ SelectLayer \/ AddFrame \/ DuplicateFrame \/ DeleteFrame \/ ClearFrame
  \/ TogglePlay \/ ChangeFps
  \/ EnterCinema \/ CloseCinema \/ CinemaTogglePlay
  \/ PlaybackEffect \/ Tick

InitFrames == InitWith(MaxFrameInputs)

SpecFrames == InitFrames /\ [][NextFrames]_vars

\* ------------------------------------------------------- the history alone
\* The Canvas history as a data structure: addToHistory, undo, redo and the
\* reset, applied to historyRef / historyIndexRef only.  The k-th snapshot
\* pushed since the last reset is the number k; the reset snapshot is Blank.
restOfEditor == <<appVars, fps, tool, timerVars, taskVars, nextId, crashed, canvasMounted,
                  ignoreFrameUpdate, canvasBitmap, isDrawing, pending, inputs, budget,
                  undoCount, redoCount, pointerDown, fill,
                 compositeRun, meltRun>>

HistPush ==
  LET cuts == historyIndex < Len(history) - 1
      r == AddToHistory(history, historyIndex, pushCount + 1)
  IN /\ pushCount < MaxPushes
     /\ cuts => branches < MaxBranches
     /\ history' = r.h
     /\ historyIndex' = r.i
     /\ historyState' = HistoryFlags(r.h, r.i)
     /\ pushCount' = pushCount + 1
     /\ branches' = IF cuts THEN branches + 1 ELSE branches
     /\ UNCHANGED restOfEditor

HistUndo ==
  LET u == UndoStep(history, historyIndex)
  IN /\ u.acted
     /\ historyIndex' = u.i
     /\ historyState' = HistoryFlags(history, u.i)
     /\ UNCHANGED <<history, pushCount, branches, restOfEditor>>

HistRedo ==
  LET u == RedoStep(history, historyIndex)
  IN /\ u.acted
     /\ historyIndex' = u.i
     /\ historyState' = HistoryFlags(history, u.i)
     /\ UNCHANGED <<history, pushCount, branches, restOfEditor>>

HistReset ==
  /\ pushCount > 0
  /\ history' = <<Blank>>
  /\ historyIndex' = 0
  /\ historyState' = HistoryFlags(<<Blank>>, 0)
  /\ pushCount' = 0
  /\ branches' = 0
  /\ UNCHANGED restOfEditor

NextHist == HistPush \/ HistUndo \/ HistRedo \/ HistReset

SpecHist == Init /\ [][NextHist]_vars

\* ------------------------------------------------- the undo/redo round trip
\* n strokes on one layer, then n undo calls, then n redo calls, with the
\* composite recomputes completing at any moment
RtStartDrawing == undoCount = 0 /\ pushCount < MaxStrokes /\ StartDrawing

RtStopDrawing ==
  /\ Idle /\ canvasMounted /\ isDrawing /\ tool # "PICKER"
  /\ StopDrawingActs /\ Input
  /\ pushCount' = pushCount + 1
  /\ UNCHANGED <<budget, branches, undoCount, redoCount, pointerDown, fill,
                 compositeRun, meltRun>>

RtUndo ==
  /\ pushCount >= 1 /\ redoCount = 0 /\ undoCount < pushCount
  /\ UndoCall
  /\ undoCount' = undoCount + 1
  /\ UNCHANGED <<budget, pushCount, branches, redoCount, pointerDown, fill,
                 compositeRun, meltRun>>

RtRedo ==
  /\ pushCount >= 1 /\ undoCount = pushCount /\ redoCount < pushCount
  /\ RedoCall
  /\ redoCount' = redoCount + 1
  /\ UNCHANGED <<budget, pushCount, branches, undoCount, pointerDown, fill,
                 compositeRun, meltRun>>

RtDeliverDrawEnd == DeliverDrawEnd

NextRoundTrip == RtStartDrawing \/ RtStopDrawing \/ RtUndo \/ RtRedo \/ RtDeliverDrawEnd

InitRoundTrip == InitWith(4 * MaxStrokes)

SpecRoundTrip == InitRoundTrip /\ [][NextRoundTrip]_vars

\* =============================================================== properties
Max(a, b) == IF a > b THEN a ELSE b

\* the (frame id, active layer index) pair the history belongs to
HistoryKey == <<frames[currentFrameIndex + 1].id, activeLayerIndex>>

NoFlags == [canUndo |-> FALSE, canRedo |-> FALSE]

\* C1: on every step that changes the (frame id, active layer) key while the
\* Canvas stays shown, the history becomes exactly one entry, the stored data
\* of the newly active layer, with cursor 0 and canUndo = canRedo = false
C1_KeyChangeResets ==
  [][(canvasMounted /\ canvasMounted' /\ HistoryKey' # HistoryKey)
       => /\ history' = <<LayerProp(frames', currentFrameIndex', activeLayerIndex')>>
          /\ historyIndex' = 0
          /\ historyState' = NoFlags]_vars

\* C2: the history always holds 1..20 entries with 0 <= cursor < length; a
\* push onto a full history evicts the oldest entry; after 25 pushes from a
\* fresh reset exactly 20 entries remain, the first 5 pushed snapshots are
\* gone, and the 19 undos that bring the cursor to 0 land on the oldest
\* retained snapshot, where a further undo does nothing
C2_HistoryBounded ==
  /\ [](/\ Len(history) \in 1..HistoryCap
        /\ historyIndex \in 0..(Len(history) - 1))
  /\ [][(pushCount' = pushCount + 1 /\ Len(history) = HistoryCap
           /\ historyIndex = HistoryCap - 1)
          => history' = Append(Tail(history), pushCount')]_vars
  /\ [][(pushCount' = pushCount /\ historyIndex' < historyIndex)
          => (historyIndex' = historyIndex - 1 /\ history' = history)]_vars
  /\ []((branches = 0 /\ pushCount = HistoryCap + 5)
          => /\ Len(history) = HistoryCap
             /\ \A k \in 1..Len(history) : history[k] \notin 0..5
             /\ history[1] = 6
             /\ historyIndex = 0 => ~UndoStep(history, historyIndex).acted)

C2_Witness == branches = 0 /\ pushCount = HistoryCap + 5 /\ historyIndex = 0

\* C3: a push made while cursor < length-1 discards every entry after the
\* cursor before appending; after any push the new snapshot is the last
\* entry, the cursor points at it and canRedo is false
C3_PushTruncates ==
  [][(pushCount' = pushCount + 1)
       => LET kept == SubSeq(history, 1, historyIndex + 1)
              n    == Len(history')
          IN /\ history'[n] = pushCount'
             /\ SubSeq(history', 1, n - 1) \in {kept, Tail(kept)}
             /\ historyIndex' = n - 1
             /\ ~historyState'.canRedo]_vars

C3_Witness == history = <<Blank, 1, 3>> /\ historyIndex = 2 /\ branches = 1

\* C4: after n strokes, n undos and n redos on one key the cursor is on the
\* snapshot pushed by the last stroke, the canvas shows it, and the last
\* redo's write-back carries it; a completed write-back stores its data in
\* the frame's layer
RoundTripDone == pushCount >= 1 /\ undoCount = pushCount /\ redoCount = pushCount

C5_BoundaryNoOp ==
  [][((Undo /\ historyIndex = 0) \/ (Redo /\ historyIndex = Len(history) - 1))
       => UNCHANGED <<history, historyIndex, frames, historyState, pending,
                      canvasBitmap, ignoreFrameUpdate>>]_vars

C5_Witness ==
  /\ canvasMounted /\ Len(history) = 2 /\ historyIndex = 0
  /\ historyState = [canUndo |-> FALSE, canRedo |-> TRUE]
  /\ Len(pending) = 2 /\ inputs = 4

\* C6: completing a stroke or a fill on an unchanged key never resets the
\* history: the push keeps the entries up to the cursor, canUndo is true
\* right after it, one undo restores the snapshot that was current before
\* the stroke, and the completion of the write-back leaves the history alone
StrokeCompletes == (StopDrawing \/ Fill) /\ pending' # pending

C6_StrokeKeepsHistory ==
  /\ [][StrokeCompletes
          => LET u == UndoStep(history', historyIndex')
             IN /\ SubSeq(history', 1, Len(history') - 1)
                     = SubSeq(history, 1, historyIndex + 1)
                /\ historyState'.canUndo
                /\ u.acted
                /\ history'[u.i + 1] = history[historyIndex + 1]]_vars
  /\ [][(Undo /\ historyIndex > 0)
          => /\ historyIndex' = historyIndex - 1
             /\ history' = history
             /\ canvasBitmap' = history[historyIndex]]_vars
  /\ [][(DeliverDrawEnd /\ canvasMounted /\ canvasMounted')
          => UNCHANGED <<history, historyIndex, historyState>>]_vars

C6_Witness ==
  /\ canvasMounted /\ pending = <<>> /\ inputs = 2
  /\ Len(history) = 2 /\ historyIndex = 1 /\ historyState.canUndo
  /\ history[2] # history[1]
  /\ LayerProp(frames, currentFrameIndex, activeLayerIndex) = history[2]

\* C7: the history is reset only by a change of the key: a step that is
\* not a stroke, fill, undo or redo and leaves the (frame id, active layer)
\* key unchanged, with the Canvas shown before and after, leaves the
\* history entries and the cursor unchanged
C7_OnlyKeyChangeResets ==
  [][(canvasMounted /\ canvasMounted' /\ HistoryKey' = HistoryKey
        /\ ~(StopDrawing \/ Fill \/ Undo \/ Redo))
       => UNCHANGED <<history, historyIndex>>]_vars

\* C8: there is always at least one frame and
\* 0 <= currentFrameIndex < frames.length
C8_CursorInRange ==
  /\ Len(frames) >= 1
  /\ currentFrameIndex \in 0..(Len(frames) - 1)

\* C9: handleDeleteFrame(i) leaves frames and cursor unchanged on a one-frame
\* list; on a longer list it removes exactly the frame at index i, and the
\* cursor becomes max(cursor - 1, 0) when i <= cursor and stays when i > cursor
C9_DeleteFrame ==
  [][DeleteFrame
       => IF Len(frames) = 1
            THEN UNCHANGED <<frames, currentFrameIndex>>
            ELSE \E i \in 0..(Len(frames) - 1) :
                   /\ frames' = [k \in 1..(Len(frames) - 1) |->
                                   IF k <= i THEN frames[k] ELSE frames[k + 1]]
                   /\ currentFrameIndex' = IF i <= currentFrameIndex
                                             THEN Max(currentFrameIndex - 1, 0)
                                             ELSE currentFrameIndex]_vars

C9_Witness ==
  /\ Len(frames) = 1 /\ frames[1].id = 2 /\ currentFrameIndex = 0
  /\ isPlaying /\ playIntervalRef # 0 /\ intervals[playIntervalRef].len = 2

\* C10: add-frame and duplicate-frame insert exactly one frame with a fresh
\* id at position cursor + 1, keep the existing frames unchanged and in
\* order, and move the cursor to the new frame; the duplicate has the same
\* 3 layers and composite as the frame that was current
C10_InsertAfterCursor ==
  [][(AddFrame \/ DuplicateFrame)
       => LET at == currentFrameIndex + 1
          IN /\ Len(frames') = Len(frames) + 1
             /\ currentFrameIndex' = at
             /\ \A k \in 1..Len(frames) :
                  /\ frames'[IF k <= at THEN k ELSE k + 1] = frames[k]
                  /\ frames'[at + 1].id # frames[k].id
             /\ DuplicateFrame
                  => /\ Len(frames'[at + 1].layers) = 3
                     /\ frames'[at + 1].layers = frames[at].layers
                     /\ frames'[at + 1].dataUrl = frames[at].dataUrl]_vars

C10_Witness ==
  /\ Len(frames) = 2 /\ currentFrameIndex = 1 /\ inputs = 3
  /\ frames[1].id = 1 /\ frames[2].id = 2
  /\ frames[1].layers[DefaultLayer + 1] = Black
  /\ frames[2].layers = frames[1].layers
  /\ frames[2].dataUrl = Black

\* C11: while playing, each tick replaces the cursor by (cursor + 1) modulo
\* the number of frames at the time of the tick and leaves the frame list
\* alone
C11_TickAdvances ==
  [][(Tick /\ isPlaying)
       => /\ currentFrameIndex' = (currentFrameIndex + 1) % Len(frames)
          /\ frames' = frames]_vars

\* the parts of the playback timer discipline that do not depend on when the
\* effect cleanup runs: at most one interval is armed, and once the playback
\* effect has run an interval is armed exactly while playing, with the
\* current fps
TimerFollowsEffect ==
  /\ Len(intervals) <= 1
  /\ ~EffectPending
       => /\ (intervals # <<>>) <=> isPlaying
          /\ isPlaying => intervals[playIntervalRef].fps = fps

\* C12: at most one playback timer is armed, only while playing and with the
\* period of the current fps; the transition from playing to stopped leaves
\* the cursor unchanged, and no tick changes the cursor while stopped
C12_StoppedIsQuiet ==
  /\ []TimerFollowsEffect
  /\ [][(isPlaying /\ ~isPlaying') => currentFrameIndex' = currentFrameIndex]_vars
  /\ [][(Tick /\ ~isPlaying) => currentFrameIndex' = currentFrameIndex]_vars

\* C20: when the AI edit call fails, the frames (layers and composites) are
\* exactly what they were before the request
C20_FailedEditKeepsFrame ==
  [][AIEditFallback => frames' = frames]_vars

\* C18: when no composite recompute is pending, every frame's composite is
\* the white-background flattening of its current 3 layers
C18_CompositeFresh ==
  (~crashed /\ pending = <<>>)
    => \A k \in 1..Len(frames) : frames[k].dataUrl = Flatten(frames[k].layers)

\* C19: applying an AI-edited image while the Canvas is shown pushes the
\* edited layer on the history once and issues one composite recompute
C19_EditThroughDrawEnd ==
  [][(AIEditComplete /\ canvasMounted /\ canvasMounted' /\ ~crashed')
       => LET edited == LayerProp(frames', currentFrameIndex, activeLayerIndex)
              r      == AddToHistory(history, historyIndex, edited)
          IN /\ history' = r.h
             /\ historyIndex' = r.i
             /\ Len(pending') = Len(pending) + 1]_vars

\* C16: a melt run that completes contributes either no frame or exactly
\* MeltFrameCount frames, inserted contiguously in one step between frames
\* that stay as they were, each new frame with a fresh id, an opaque layer 0
\* and transparent layers 1 and 2; no other step changes the length of the
\* frame list by more than one
C16_MeltAllOrNothing ==
  [][IF Len(meltTasks') < Len(meltTasks)
       THEN \/ frames' = frames
            \/ \E at \in 0..Len(frames) :
                 /\ Len(frames') = Len(frames) + MeltFrameCount
                 /\ \A k \in 1..Len(frames) :
                      frames'[IF k <= at THEN k ELSE k + MeltFrameCount] = frames[k]
                 /\ \A f \in 1..MeltFrameCount :
                      /\ \A k \in 1..Len(frames) : frames'[at + f].id # frames[k].id
                      /\ \A g \in 1..MeltFrameCount :
                           g # f => frames'[at + g].id # frames'[at + f].id
                      /\ frames'[at + f].dataUrl \in Opaque
                      /\ frames'[at + f].layers = <<frames'[at + f].dataUrl, Blank, Blank>>
       ELSE Len(frames') - Len(frames) \in {-1, 0, 1}]_vars

C16_Witness ==
  /\ lastMelt = "inserted" /\ meltTasks = <<>> /\ inputs = 3
  /\ Len(frames) = 1 + MeltFrameCount
  /\ frames[1].id = 1 /\ frames[1].dataUrl = Black
  /\ frames[2].dataUrl = Black
  /\ frames[1 + MeltFrameCount].dataUrl = White

\* C17: a melt run that yields an empty sequence leaves the frame list, the
\* cursor, the playing state and the play timeout alone, raises nothing, and
\* isProcessing is false afterwards
C17_EmptyMeltChangesNothing ==
  [][(Len(meltTasks') < Len(meltTasks) /\ lastMelt' = "empty")
       => /\ UNCHANGED <<frames, currentFrameIndex, isPlaying, playTimeouts>>
          /\ crashed' = crashed
          /\ ~isProcessing']_vars

C17_Witness ==
  /\ lastMelt = "empty" /\ meltTasks = <<>> /\ inputs = 2
  /\ ~isProcessing /\ ~isPlaying /\ playTimeouts = 0
  /\ Len(frames) = 2 /\ currentFrameIndex = 1

\* C13: the pointer-up that ends a gesture begun with a drawing tool pushes
\* the bitmap on the history once and issues one composite recompute, whatever
\* the tool is by then; a fill that changes the bitmap does the same at its
\* pointer-down; pointer-moves push nothing, and a pointer-leave after the
\* pointer-up pushes nothing
C13_OnePushPerGesture ==
  [][/\ (pointerDown /\ ~pointerDown' /\ isDrawing)
          => LET r == AddToHistory(history, historyIndex, canvasBitmap)
             IN /\ history' = r.h /\ historyIndex' = r.i
                /\ pending' = Append(pending, Request(canvasBitmap))
                /\ ~isDrawing'
     /\ (PointerDown /\ tool = "FILL" /\ canvasBitmap' # canvasBitmap)
          => LET r == AddToHistory(history, historyIndex, canvasBitmap')
             IN /\ history' = r.h /\ historyIndex' = r.i
                /\ pending' = Append(pending, Request(canvasBitmap'))
     /\ PointerMove => UNCHANGED <<history, historyIndex, pending>>
     /\ (PointerLeave /\ ~isDrawing) => UNCHANGED <<history, historyIndex, pending>>]_vars

\* the pixels next to p: left, right, up, down
Neighbours(p) ==
  LET x == p % FillWidth
      y == p \div FillWidth
  IN    (IF x > 0 THEN {p - 1} ELSE {})
     \cup (IF x < FillWidth - 1 THEN {p + 1} ELSE {})
     \cup (IF y > 0 THEN {p - FillWidth} ELSE {})
     \cup (IF y < FillHeight - 1 THEN {p + FillWidth} ELSE {})

\* the pixels 4-connected to the seed through pixels of the seed's colour
RECURSIVE Grow(_, _, _)
Grow(buf, colour, S) ==
  LET T == S \cup {q \in Pixels : buf[q] = colour /\ \E p \in S : q \in Neighbours(p)}
  IN IF T = S THEN S ELSE Grow(buf, colour, T)

Region(f) == Grow(f.orig, f.start, {Pos(f.x, f.y)})

\* C14: with a fill colour different from the seed pixel's colour, floodFill
\* recolours exactly the pixels 4-connected to the seed through pixels of the
\* seed's original colour and leaves every other pixel as it was; while it
\* runs it touches no pixel outside that region
C14_FillExact ==
  fill.phase \in {"run", "done"}
    => LET region == Region(fill)
       IN /\ \A p \in Pixels \ region : fill.data[p] = fill.orig[p]
          /\ \A p \in region : fill.data[p] \in {fill.orig[p], fill.color}
          /\ fill.phase = "done" => \A p \in region : fill.data[p] = fill.color

C14_Witness ==
  /\ fill.phase = "done" /\ fill.pops >= 2
  /\ Cardinality(Region(fill)) >= 3
  /\ \E p \in Pixels \ Region(fill) :
       /\ fill.orig[p] = fill.start /\ fill.data[p] = fill.start
       /\ \E q \in Region(fill) : (q % FillWidth) # (p % FillWidth)
                                  /\ (q \div FillWidth) # (p \div FillWidth)
  /\ \E p \in Pixels \ Region(fill) : fill.orig[p] # fill.start /\ fill.data[p] = fill.orig[p]

\* C15: floodFill on a seed pixel that already has the fill colour changes no
\* pixel, pushes nothing on the history and issues no recompute; filling the
\* same seed again with the same colour is such a call, so it leaves the
\* buffer and the one push of the first fill
C15_FillNoOp ==
  /\ (fill.phase # "idle" /\ fill.start = fill.color)
       => /\ fill.phase = "noop"
          /\ fill.data = fill.orig
          /\ fill.pushed = fill.pushedBefore
          /\ fill.recomputed = fill.recomputedBefore
  /\ (fill.phase # "idle" /\ fill.calls = 2)
       => /\ fill.start = fill.color
          /\ fill.pushed = 1 /\ fill.recomputed = 1

C15_Witness ==
  /\ fill.phase = "noop" /\ fill.calls = 2
  /\ fill.pushed = 1
  /\ \E p \in Pixels : p # Pos(fill.x, fill.y) /\ fill.data[p] = fill.color
  /\ \E p \in Pixels : fill.data[p] # fill.color

\* C21: no playback tick changes the cursor while a composite recompute is
\* between its start (updateLayerAndComposite) and its completion (onDrawEnd)
C21_NoTickDuringRecompute ==
  [][(Tick /\ pending # <<>>) => currentFrameIndex' = currentFrameIndex]_vars

\* C22: right after add-frame or duplicate-frame the active layer is layer 1,
\* whatever layer was active before
C22_NewFrameOnMiddleLayer ==
  [][(AddFrame \/ DuplicateFrame) => activeLayerIndex' = DefaultLayer]_vars

\* C23: the composite is layer 0, then 1, then 2 drawn onto opaque white,
\* whatever order the three images finished loading in; a second recompute
\* over the same inputs gives the same composite; the layers are not modified
C23_CompositeInOrder ==
  /\ compositeRun.phase # "idle"
       => compositeRun.srcs = [compositeRun.layers EXCEPT
                                 ![compositeRun.ali + 1] = compositeRun.data]
  /\ compositeRun.phase = "drawn"
       => /\ compositeRun.canvas = Flatten(compositeRun.srcs)
          /\ compositeRun.canvas \in Opaque
          /\ compositeRun.runs = 2 => compositeRun.canvas = compositeRun.first

C23_Witness ==
  /\ compositeRun.phase = "drawn" /\ compositeRun.runs = 2
  /\ compositeRun.loaded = <<3, 2, 1>>
  /\ compositeRun.srcs = <<Black, Blank, White>>
  /\ compositeRun.layers = <<Black, Blank, Black>>
  /\ compositeRun.canvas = White

\* C24: in the frame being rendered, every rendered column x has the shift
\* s = floor(yOffset[x]) with s >= 0, its destination row y + s holds source
\* row y for the rows with y + s < height, its rows above s are opaque white,
\* no row wraps to the top, and no write left the buffer; the columns not
\* rendered yet are white
C24_ColumnShift ==
  meltRun.phase = "frame"
    => /\ ~meltRun.outside
       /\ Len(meltRun.shifts) = meltRun.x
       /\ \A x \in 0..(MeltGridWidth - 1) : \A r \in 0..(MeltGridHeight - 1) :
            LET d == meltRun.dest[r * MeltGridWidth + x]
            IN IF x >= meltRun.x
                 THEN d = PaperWhite
                 ELSE LET s == meltRun.shifts[x + 1]
                      IN /\ s >= 0
                         /\ s = meltRun.yOffsets[x + 1] \div 10
                         /\ d = IF r < s THEN PaperWhite ELSE SrcPixel(x, r - s)

C24_Witness ==
  /\ meltRun.phase = "frame" /\ meltRun.f = 1 /\ meltRun.x = MeltGridWidth
  /\ \E x \in 1..MeltGridWidth :
       meltRun.shifts[x] > 0 /\ meltRun.shifts[x] < MeltGridHeight
  /\ \E x \in 1..MeltGridWidth : meltRun.shifts[x] >= MeltGridHeight
  /\ meltRun.shifts[3] # meltRun.shifts[1]

\* C25: the draw-end of a stroke, fill, undo or redo changes only the layer
\* the operation was made on and the composite, in the frame the operation
\* was made on: the other layers of that frame, every id, every other frame,
\* the length of the frame list and the cursor stay as they were
C25_OnlyActiveLayerOfCurrentFrame ==
  [][DeliverDrawEnd
       => \E k \in 1..Len(pending) :
            LET r == pending[k]
            IN /\ pending' = RemoveAt(pending, k - 1)
               /\ Len(frames') = Len(frames)
               /\ currentFrameIndex' = currentFrameIndex
               /\ \A j \in 1..Len(frames) :
                    /\ frames'[j].id = frames[j].id
                    /\ frames[j].id # r.id => frames'[j] = frames[j]
                    /\ \A l \in 1..3 :
                         l # r.ali + 1 => frames'[j].layers[l] = frames[j].layers[l]]_vars

\* the part of C25 that the code keeps: a draw-end changes at most one frame,
\* in it one layer and the composite, and neither an id, the length nor the
\* cursor
DrawEndTouchesOneLayer ==
  [][DeliverDrawEnd
       => /\ Len(frames') = Len(frames)
          /\ currentFrameIndex' = currentFrameIndex
          /\ \A j \in 1..Len(frames) : frames'[j].id = frames[j].id
          /\ Cardinality({j \in 1..Len(frames) : frames'[j] # frames[j]}) <= 1
          /\ \A j \in 1..Len(frames) :
               Cardinality({l \in 1..3 : frames'[j].layers[l] # frames[j].layers[l]}) <= 1]_vars

\* C26: a draw-end delivered after the await (stroke, fill, undo/redo
\* recompute) or an AI edit result is written to the frame whose id was
\* current when the operation was issued: that frame, where it still is in
\* the list, receives the layer data; no frame with another id changes; and
\* the write never indexes outside the frame list
C26_WrittenToIssuingFrame ==
  [][/\ DeliverDrawEnd
          => \E k \in 1..Len(pending) :
               LET r == pending[k]
               IN /\ pending' = RemoveAt(pending, k - 1)
                  /\ crashed' = crashed
                  /\ \A j \in 1..Len(frames) :
                       IF frames[j].id = r.id
                         THEN frames'[j].layers[r.ali + 1] = r.data
                         ELSE frames'[j] = frames[j]
     /\ (AIEditComplete \/ AIEditFallback)
          => \E k \in 1..Len(aiTasks) :
               LET t == aiTasks[k]
               IN /\ aiTasks' = RemoveAt(aiTasks, k - 1)
                  /\ crashed' = crashed
                  /\ \A j \in 1..Len(frames) :
                       frames[j].id # t.id => frames'[j] = frames[j]]_vars

\* C27: whenever no composite recompute is pending, the layer stored in the
\* frame list for the current frame and active layer is history[cursor] of
\* the Canvas
C27_StoreFollowsHistory ==
  (pending = <<>> /\ canvasMounted /\ ~crashed)
    => LayerProp(frames, currentFrameIndex, activeLayerIndex) = history[historyIndex + 1]

\* the pixels a floodFill call has recoloured so far
Recoloured(f) == {p \in Pixels : f.data[p] # f.orig[p]}

\* C28: floodFill terminates: a popped seed whose pixel still has the start
\* colour recolours it, any other popped seed finds its pixel already
\* recoloured and changes nothing; a running call reaches the empty stack
\* and returns, and the seeds it pushed, the first one included, are then at
\* most the pixels it recoloured plus one; while it runs every seed pushed is
\* popped or on the stack, and the seeds pushed are at most the pixels that
\* had the start colour plus one
C28_FloodFillTerminates ==
  /\ [](fill.phase \in {"run", "done"}
          => /\ fill.pops + Len(fill.stack) = fill.seeds
             /\ fill.seeds <= Cardinality({p \in Pixels : fill.orig[p] = fill.start}) + 1
             /\ fill.phase = "done"
                  => fill.seeds <= Cardinality(Recoloured(fill)) + 1)
  /\ [][FloodFillPop
          => LET pop == fill.stack[Len(fill.stack)]
                 pos == Pos(pop[1], pop[2])
             IN IF matchStartColor(fill.data, fill.start, pos)
                  THEN /\ fill'.data[pos] = fill.color
                       /\ Cardinality(Recoloured(fill')) > Cardinality(Recoloured(fill))
                  ELSE /\ fill.data[pos] = fill.color /\ fill.orig[pos] = fill.start
                       /\ fill'.data = fill.data
                       /\ Len(fill'.stack) = Len(fill.stack) - 1]_vars
  /\ (fill.phase = "run") ~> (fill.phase = "done" /\ fill.stack = <<>>)

\* a finished fill in which one seed was popped after its pixel had been
\* recoloured through another seed: five seeds for eight pixels
C28_Witness ==
  /\ fill.phase = "done" /\ fill.stack = <<>>
  /\ fill.stale = 1
  /\ fill.seeds = 5 /\ fill.pops = 5
  /\ Cardinality(Recoloured(fill)) = 8

\* C29: at most one melt run is in flight, and one is in flight exactly while
\* isProcessing is true; a request made while isProcessing is true changes
\* nothing; and isProcessing, once true, becomes false again (unless the
\* editor has been torn down by an error in between)
C29_OneMeltAtATime ==
  /\ [](Len(meltTasks) <= 1 /\ (isProcessing <=> meltTasks # <<>>))
  /\ [][(isProcessing /\ Surprise) => UNCHANGED vars]_vars
  /\ [][(Len(meltTasks') < Len(meltTasks)) => ~isProcessing']_vars
  /\ isProcessing ~> (~isProcessing \/ crashed)

\* a second run in flight after the first one returned empty and released the
\* flag
C29_Witness ==
  /\ lastMelt = "empty"
  /\ isProcessing /\ Len(meltTasks) = 1
  /\ ~crashed

\* C30: the frames of a melt run are inserted immediately after the frame
\* whose composite was the melt source, wherever that frame is in the list
\* when the run completes, and the insertion changes no frame that was there
\* before
C30_InsertedAfterSource ==
  [][(Len(meltTasks') < Len(meltTasks) /\ lastMelt' = "inserted")
       => \E k \in 1..Len(meltTasks) :
            LET t == meltTasks[k]
            IN /\ meltTasks' = RemoveAt(meltTasks, k - 1)
               /\ Len(frames') = Len(frames) + MeltFrameCount
               /\ \A at \in 1..Len(frames) :
                    frames[at].id = t.id
                      => \A j \in 1..Len(frames) :
                           frames'[IF j <= at THEN j ELSE j + MeltFrameCount] = frames[j]]_vars

\* the part of C30 that the code keeps: the frames that were there before the
\* insertion are unchanged and in their order, around one contiguous block
MeltKeepsOldFrames ==
  [][(Len(meltTasks') < Len(meltTasks) /\ lastMelt' = "inserted")
       => \E at \in 0..Len(frames) :
            /\ Len(frames') = Len(frames) + MeltFrameCount
            /\ \A j \in 1..Len(frames) :
                 frames'[IF j <= at THEN j ELSE j + MeltFrameCount] = frames[j]]_vars

====
